---- MODULE Spec2Model ----
(***************************************************************************)
(* Model of src/functions.py: calcular_rentabilidad and                    *)
(* calcular_indicadores, called by an analysis session on a Price Table.   *)
(*                                                                         *)
(* Numbers.  pandas computes in floating point; the model computes in      *)
(* exact rationals, extended with the special values the code can          *)
(* produce: NaN (a missing price, the mean of an empty series, 0/0),       *)
(* +inf and -inf (x/0), and the square root of a rational (std, np.sqrt).  *)
(* A number is a record [k, n, d]: k = "num" is n/d in lowest terms with   *)
(* d > 0, k = "sqrt" is the square root of n/d.                            *)
(*                                                                         *)
(* Objects.  pandas objects live in a heap, a sequence indexed by object   *)
(* id.  Every pandas operation the two functions use returns a new object  *)
(* and leaves its receiver alone; objects local to a call are freed when   *)
(* it returns.                                                             *)
(***************************************************************************)
EXTENDS Integers, Sequences, FiniteSets, TLC

\* ------------------------------------------------------------------ bounds

\* Rows (dates) of the largest Price Table.
MaxRows == 3
\* Largest value of dias_trading the session passes.
MaxDias == 2
\* Tickers of the widest Price Table (the spec's end-to-end scenario names them).
Tickers == <<"AAA", "BBB">>
\* Adjusted closing prices: positive numbers.
Prices == {1, 2}
\* Values of the capital_inicial argument; 100000 is the default.
Capitals == {100000, 50000}
\* Values of the rendimiento_sin_riesgo argument; 1/100 is the default.
RiskFreePercent == {1, 0}

\* --------------------------------------------------------------- numbers

Abs(n) == IF n < 0 THEN -n ELSE n

RECURSIVE GCD(_, _)
GCD(a, b) == IF b = 0 THEN a ELSE GCD(b, a % b)

\* The rational n/d (d > 0), in lowest terms.
F(n, d) ==
    LET g == GCD(Abs(n), d)
    IN  [k |-> "num", n |-> n \div g, d |-> d \div g]

NaN == [k |-> "nan", n |-> 0, d |-> 1]
PosInf == [k |-> "inf", n |-> 1, d |-> 1]
NegInf == [k |-> "inf", n |-> -1, d |-> 1]

IsNum(x) == x.k = "num"
IsNaN(x) == x.k = "nan"

\* x + y, x - y, x * y: NaN when an operand is missing.  The operands are
\* brought to their least common denominator, and a product is reduced
\* crosswise, before multiplying, to keep the integers small.
FAdd(x, y) ==
    IF IsNum(x) /\ IsNum(y)
    THEN LET g == GCD(x.d, y.d)
         IN  F(x.n * (y.d \div g) + y.n * (x.d \div g), (x.d \div g) * y.d)
    ELSE NaN

FSub(x, y) ==
    IF IsNum(x) /\ IsNum(y)
    THEN LET g == GCD(x.d, y.d)
         IN  F(x.n * (y.d \div g) - y.n * (x.d \div g), (x.d \div g) * y.d)
    ELSE NaN

FMul(x, y) ==
    IF IsNum(x) /\ IsNum(y)
    THEN LET g1 == GCD(Abs(x.n), y.d)
             g2 == GCD(Abs(y.n), x.d)
         IN  F((x.n \div g1) * (y.n \div g2), (x.d \div g2) * (y.d \div g1))
    ELSE NaN

\* x / y in floating point: x/0 is +inf, -inf or (0/0) NaN, never an exception.
FDiv(x, y) ==
    IF ~(IsNum(x) /\ IsNum(y)) THEN NaN
    ELSE IF y.n = 0 THEN (IF x.n > 0 THEN PosInf ELSE IF x.n < 0 THEN NegInf ELSE NaN)
    ELSE IF y.n > 0 THEN FMul(x, F(y.d, y.n))
    ELSE FMul(x, F(-y.d, -y.n))

FLt(x, y) == x.n * y.d < y.n * x.d
FLe(x, y) == x.n * y.d <= y.n * x.d

\* x ** e for a natural e.
RECURSIVE FPow(_, _)
FPow(x, e) == IF e = 0 THEN F(1, 1) ELSE FMul(x, FPow(x, e - 1))

\* The square root of a rational, kept as its radicand.
FSqrt(x) == IF IsNum(x) THEN [k |-> "sqrt", n |-> x.n, d |-> x.d] ELSE NaN

\* sqrt(a) * sqrt(b) = sqrt(a * b).
SqrtMul(a, b) ==
    IF a.k = "sqrt" /\ b.k = "sqrt"
    THEN FSqrt(F(a.n * b.n, a.d * b.d))
    ELSE NaN

\* x / sqrt(v): a finite quotient is kept as the pair, and a zero or missing
\* divisor gives what floating-point division gives.
DivSqrt(x, s) ==
    IF ~(IsNum(x) /\ s.k = "sqrt") THEN NaN
    ELSE IF s.n = 0 THEN (IF x.n > 0 THEN PosInf ELSE IF x.n < 0 THEN NegInf ELSE NaN)
    ELSE [k |-> "quot", n |-> x, d |-> s]

\* ---------------------------------------------------------- pandas objects

DataFrame(index, columns, data) ==
    [kind |-> "DataFrame", index |-> index, columns |-> columns, data |-> data]

Series(index, data) ==
    [kind |-> "Series", index |-> index, columns |-> <<>>, data |-> data]

\* A new object on the heap, and the reference to it.
Alloc(h, obj) == [heap |-> Append(h, obj), ref |-> Len(h) + 1]

\* The subsequence of s at the positions 1..Len(s) that satisfy keep.
RECURSIVE Filter(_, _, _)
Filter(s, keep, i) ==
    IF i > Len(s) THEN <<>>
    ELSE IF keep[i] THEN <<s[i]>> \o Filter(s, keep, i + 1)
    ELSE Filter(s, keep, i + 1)

\* DataFrame.ffill: the last valid price of column c at or before row t.
RECURSIVE LastValid(_, _, _)
LastValid(data, t, c) ==
    IF t = 0 THEN NaN
    ELSE IF IsNum(data[t][c]) THEN data[t][c]
    ELSE LastValid(data, t - 1, c)

ffill(data) ==
    [t \in 1..Len(data) |-> [c \in 1..Len(data[t]) |-> LastValid(data, t, c)]]

\* The value of DataFrame.pct_change(): data / data.shift(1) - 1, on the
\* forward-filled prices when fill_method defaults to 'pad' (pandas < 3), on
\* the prices as they are when it defaults to None (pandas >= 3).
pct_change_value(df, pad) ==
    LET data == IF pad THEN ffill(df.data) ELSE df.data
        rs == [t \in 1..Len(data) |->
                 [c \in 1..Len(data[t]) |->
                    IF t = 1 THEN NaN
                    ELSE FSub(FDiv(data[t][c], data[t - 1][c]), F(1, 1))]]
    IN  DataFrame(df.index, df.columns, rs)

\* A pct_change that writes the changes into its receiver (an assignment back
\* into precios_cierre) instead of returning a new DataFrame.
pct_change_inplace(h, ref, pad) ==
    [heap |-> [h EXCEPT ![ref] = pct_change_value(h[ref], pad)], ref |-> ref]

\* DataFrame.pct_change() returns a new DataFrame.
pct_change(h, ref, pad) == Alloc(h, pct_change_value(h[ref], pad))

\* A dropna left out: every row is kept.
dropna_value_omitted(df) == df

\* The value of DataFrame.dropna(): the rows without a missing value.
dropna_value(df) ==
    LET keep == [t \in 1..Len(df.data) |->
                   \A c \in 1..Len(df.data[t]) : ~IsNaN(df.data[t][c])]
    IN  DataFrame(Filter(df.index, keep, 1), df.columns, Filter(df.data, keep, 1))

\* DataFrame.dropna() returns a new DataFrame.
dropna(h, ref) == Alloc(h, dropna_value(h[ref]))

\* sum over c of row[c] * w[c], left to right.
RECURSIVE DotRow(_, _, _)
DotRow(row, w, c) ==
    IF c = 0 THEN F(0, 1)
    ELSE FAdd(DotRow(row, w, c - 1), FMul(row[c], w[c]))

\* DataFrame.dot(list) returns a new Series on the frame's index.
dot(h, ref, w) ==
    LET df == h[ref]
    IN  Alloc(h, Series(df.index,
                        [t \in 1..Len(df.data) |-> DotRow(df.data[t], w, Len(w))]))

\* A call returns: the objects it created are freed, except the one returned,
\* which is a new object of the caller's.  h0 is the heap at the call, h1 the
\* heap at the return statement.
Return(h0, h1, ref) == Append(SubSeq(h1, 1, Len(h0)), h1[ref])

\* ------------------------------------------------- calcular_rentabilidad

\* Weights of inversion_por_empresa, the capital per ticker, instead of
\* peso_cartera.
pesos_inversion(n_empresas, capital_inicial) ==
    LET peso_cartera == F(1, n_empresas)
        inversion_por_empresa == FMul(F(capital_inicial, 1), peso_cartera)
    IN  [i \in 1..n_empresas |-> inversion_por_empresa]

\* [peso_cartera] * n_empresas, the weights handed to dot: capital_inicial
\* enters inversion_por_empresa only, which nothing reads.
pesos(n_empresas, capital_inicial) ==
    LET peso_cartera == F(1, n_empresas)
        inversion_por_empresa == FMul(F(capital_inicial, 1), peso_cartera)
    IN  [i \in 1..n_empresas |-> peso_cartera]

\* The outcome of calcular_rentabilidad(precios_cierre, capital_inicial):
\* the exception raised ("none" when it returns), the heap it leaves and the
\* reference it returns (0 when it raises).
calcular_rentabilidad(h, precios_cierre, capital_inicial, pad) ==
    LET n_empresas == Len(h[precios_cierre].columns)
    IN  IF n_empresas = 0
        THEN \* 1 / n_empresas: Python's integer division by zero raises.
             [raised |-> "ZeroDivisionError", at |-> "peso_cartera", heap |-> h, ref |-> 0]
        ELSE LET changes == pct_change(h, precios_cierre, pad)
                 rentabilidad_diaria == dropna(changes.heap, changes.ref)
                 result == dot(rentabilidad_diaria.heap, rentabilidad_diaria.ref,
                               pesos(n_empresas, capital_inicial))
             IN  [raised |-> "none", at |-> "return",
                  heap |-> Return(h, result.heap, result.ref),
                  ref |-> Len(h) + 1]

\* -------------------------------------------------- calcular_indicadores

RECURSIVE SumTo(_, _)
SumTo(xs, i) == IF i = 0 THEN F(0, 1) ELSE FAdd(SumTo(xs, i - 1), xs[i])

RECURSIVE ProdTo(_, _)
ProdTo(xs, i) == IF i = 0 THEN F(1, 1) ELSE FMul(ProdTo(xs, i - 1), xs[i])

RECURSIVE MaxTo(_, _)
MaxTo(xs, i) ==
    IF i = 1 THEN xs[1]
    ELSE LET m == MaxTo(xs, i - 1) IN IF FLt(m, xs[i]) THEN xs[i] ELSE m

RECURSIVE MinTo(_, _)
MinTo(xs, i) ==
    IF i = 1 THEN xs[1]
    ELSE LET m == MinTo(xs, i - 1) IN IF FLt(xs[i], m) THEN xs[i] ELSE m

\* Series.mean(): NaN for an empty series.
mean(s) ==
    IF Len(s.data) = 0 THEN NaN
    ELSE FDiv(SumTo(s.data, Len(s.data)), F(Len(s.data), 1))

\* Series.std(): the sample standard deviation (ddof = 1), NaN for fewer than
\* two values.
std(s) ==
    LET n == Len(s.data)
        m == mean(s)
        sq == [i \in 1..n |-> FMul(FSub(s.data[i], m), FSub(s.data[i], m))]
    IN  IF n < 2 THEN NaN ELSE FSqrt(FDiv(SumTo(sq, n), F(n - 1, 1)))

\* A sum where the product belongs.
prod_as_sum(s) == SumTo(s.data, Len(s.data))

\* Series.prod(): 1 for an empty series.
prod(s) == ProdTo(s.data, Len(s.data))

\* Series.min(): NaN for an empty series.
min(s) == IF Len(s.data) = 0 THEN NaN ELSE MinTo(s.data, Len(s.data))

\* The 1 + left out: a copy of the series.
add_scalar_omitted(h, ref, x) ==
    Alloc(h, Series(h[ref].index, h[ref].data))

\* series + 1 and 1 + series return a new Series.
add_scalar(h, ref, x) ==
    LET s == h[ref]
    IN  Alloc(h, Series(s.index, [i \in 1..Len(s.data) |-> FAdd(s.data[i], x)]))

\* Series.cumprod() returns a new Series.
cumprod(h, ref) ==
    LET s == h[ref]
    IN  Alloc(h, Series(s.index, [i \in 1..Len(s.data) |-> ProdTo(s.data, i)]))

\* Series.cummax() returns a new Series.
cummax(h, ref) ==
    LET s == h[ref]
    IN  Alloc(h, Series(s.index, [i \in 1..Len(s.data) |-> MaxTo(s.data, i)]))

\* a - b and a / b on two Series of the same index return a new Series.
sub(h, a, b) ==
    Alloc(h, Series(h[a].index,
                    [i \in 1..Len(h[a].data) |-> FSub(h[a].data[i], h[b].data[i])]))

div(h, a, b) ==
    Alloc(h, Series(h[a].index,
                    [i \in 1..Len(h[a].data) |-> FDiv(h[a].data[i], h[b].data[i])]))

IndicatorColumns ==
    <<"Rentabilidad Anualizada", "Volatilidad Anualizada", "Ratio de Sharpe",
      "Retorno Acumulado", "Maximo Drawdown">>

\* The outcome of calcular_indicadores(rentabilidad_cartera, dias_trading,
\* rendimiento_sin_riesgo): no statement of it raises.
calcular_indicadores(h, rentabilidad, dias_trading, rendimiento_sin_riesgo) ==
    LET s == h[rentabilidad]
        rentabilidad_anualizada ==
            FSub(FPow(FAdd(F(1, 1), mean(s)), dias_trading), F(1, 1))
        volatilidad_anualizada == SqrtMul(std(s), FSqrt(F(dias_trading, 1)))
        sharpe_ratio ==
            DivSqrt(FSub(rentabilidad_anualizada, rendimiento_sin_riesgo),
                    volatilidad_anualizada)
        plus1 == add_scalar(h, rentabilidad, F(1, 1))
        retorno_acumulado == FSub(prod(plus1.heap[plus1.ref]), F(1, 1))
        one_plus == add_scalar(plus1.heap, rentabilidad, F(1, 1))
        wealth_index == cumprod(one_plus.heap, one_plus.ref)
        previous_peaks == cummax(wealth_index.heap, wealth_index.ref)
        difference == sub(previous_peaks.heap, wealth_index.ref, previous_peaks.ref)
        drawdown == div(difference.heap, difference.ref, previous_peaks.ref)
        max_drawdown == min(drawdown.heap[drawdown.ref])
        out == Alloc(drawdown.heap,
                     DataFrame(<<0>>, IndicatorColumns,
                               << <<rentabilidad_anualizada, volatilidad_anualizada,
                                    sharpe_ratio, retorno_acumulado, max_drawdown>> >>))
    IN  [raised |-> "none", at |-> "return",
         heap |-> Return(h, out.heap, out.ref), ref |-> Len(h) + 1]

\* ---------------------------------------------------------------- session

VARIABLES
    heap,                  \* the session's objects, by id
    fill_pad,              \* pct_change's default fill_method is 'pad'
    precios_cierre,        \* the session's Price Table (a reference)
    rentabilidad_cartera,  \* its latest Return Series (a reference, 0: none)
    df_indicadores,        \* its latest Indicator Record (a reference, 0: none)
    made_by,               \* for each object, the call that returned it
    raised                 \* the outcome of the latest call

vars == <<heap, fill_pad, precios_cierre, rentabilidad_cartera, df_indicadores,
          made_by, raised>>

RiskFree == {F(p, 100) : p \in RiskFreePercent}

Cells == {F(p, 1) : p \in Prices} \cup {NaN}

\* The Price Tables of n rows over the first m tickers, dated 1..n.
PriceTables(n, m) ==
    {DataFrame([t \in 1..n |-> t], SubSeq(Tickers, 1, m), data) :
        data \in [1..n -> [1..m -> Cells]]}

Call(fn, arg, capital, dias, rf) ==
    [fn |-> fn, arg |-> arg, capital_inicial |-> capital, dias_trading |-> dias,
     rendimiento_sin_riesgo |-> rf]

NoRaise == [exception |-> "none", at |-> "none", fn |-> "none"]

\* importar_datos has returned the Price Table; nothing else has been called.
Init ==
    /\ \E n \in 0..MaxRows, m \in 0..Len(Tickers) :
          \E df \in PriceTables(n, m) : heap = <<df>>
    /\ fill_pad \in BOOLEAN
    /\ precios_cierre = 1
    /\ rentabilidad_cartera = 0
    /\ df_indicadores = 0
    /\ made_by = <<Call("importar_datos", 0, 0, 0, NaN)>>
    /\ raised = NoRaise

\* The session's first statement, while it has no Return Series:
\* rentabilidad_cartera = calcular_rentabilidad(precios_cierre, capital_inicial)
CallRentabilidad ==
    /\ rentabilidad_cartera = 0
    /\ \E capital_inicial \in Capitals :
          LET r == calcular_rentabilidad(heap, precios_cierre, capital_inicial, fill_pad)
          IN  /\ heap' = r.heap
              /\ raised' = [exception |-> r.raised, at |-> r.at,
                            fn |-> "calcular_rentabilidad"]
              /\ IF r.raised = "none"
                 THEN /\ rentabilidad_cartera' = r.ref
                      /\ made_by' = Append(made_by,
                             Call("calcular_rentabilidad", precios_cierre,
                                  capital_inicial, 0, NaN))
                 ELSE UNCHANGED <<rentabilidad_cartera, made_by>>
    /\ UNCHANGED <<fill_pad, precios_cierre, df_indicadores>>

\* The session's second statement, once it has a Return Series:
\* df_indicadores = calcular_indicadores(rentabilidad_cartera, dias_trading,
\*                                       rendimiento_sin_riesgo)
CallIndicadores ==
    /\ rentabilidad_cartera # 0
    /\ df_indicadores = 0
    /\ \E dias_trading \in 1..MaxDias, rendimiento_sin_riesgo \in RiskFree :
          LET r == calcular_indicadores(heap, rentabilidad_cartera, dias_trading,
                                        rendimiento_sin_riesgo)
          IN  /\ heap' = r.heap
              /\ raised' = [exception |-> r.raised, at |-> r.at,
                            fn |-> "calcular_indicadores"]
              /\ df_indicadores' = r.ref
              /\ made_by' = Append(made_by,
                     Call("calcular_indicadores", rentabilidad_cartera, 0,
                          dias_trading, rendimiento_sin_riesgo))
    /\ UNCHANGED <<fill_pad, precios_cierre, rentabilidad_cartera>>

Next == CallRentabilidad \/ CallIndicadores

Spec == Init /\ [][Next]_vars

\* ----------------------------------------------------------------- claims

\* The session's Price Table, its rows N and columns M.
Table == heap[precios_cierre]
N == Len(Table.data)
M == Len(Table.columns)

\* The Return Series and the Indicator Records the session holds.
SeriesIds == {i \in 1..Len(heap) : made_by[i].fn = "calcular_rentabilidad"}
RecordIds == {i \in 1..Len(heap) : made_by[i].fn = "calcular_indicadores"}

\* The Return Series an Indicator Record was computed from, and its fields.
SeriesOf(j) == heap[made_by[j].arg]
Anualizada(j) == heap[j].data[1][1]
Volatilidad(j) == heap[j].data[1][2]
Sharpe(j) == heap[j].data[1][3]
Acumulado(j) == heap[j].data[1][4]
Drawdown(j) == heap[j].data[1][5]

Range(f) == {f[i] : i \in DOMAIN f}
Zero == F(0, 1)

MissingAt(t) == \E c \in 1..M : IsNaN(Table.data[t][c])
NoMissing == \A t \in 1..N : ~MissingAt(t)

\* C1: for a Price Table of N >= 2 rows and M >= 1 columns without missing
\* values, the Return Series has exactly N - 1 entries, on the input's dates
\* without the first.
C1_ReturnSeriesLength ==
    \A i \in SeriesIds :
        (N >= 2 /\ M >= 1 /\ NoMissing) =>
            /\ Len(heap[i].data) = N - 1
            /\ heap[i].index = [t \in 1..(N - 1) |-> Table.index[t + 1]]

C1_Witness ==
    \E i \in SeriesIds : N = MaxRows /\ M = Len(Tickers) /\ NoMissing

\* The simple return of column c at date t, from the Price Table itself.
SimpleReturn(t, c) ==
    IF t < 2 THEN NaN
    ELSE FSub(FDiv(Table.data[t][c], Table.data[t - 1][c]), F(1, 1))

MeanOfReturns(t) ==
    FDiv(SumTo([c \in 1..M |-> SimpleReturn(t, c)], M), F(M, 1))

\* C2: at each surviving date t the portfolio return is the arithmetic mean of
\* the M simple returns price[t]/price[t-1] - 1, for every Price Table.
C2_MeanOfSimpleReturns ==
    \A i \in SeriesIds : \A p \in 1..Len(heap[i].data) :
        heap[i].data[p] = MeanOfReturns(heap[i].index[p])

\* C2, where the forward fill of C3 cannot act: the same statement for Price
\* Tables without missing values, and for pct_change without a fill.
C2_MeanOfSimpleReturns_Unfilled ==
    (NoMissing \/ ~fill_pad) => C2_MeanOfSimpleReturns

\* C3: a date whose row has a missing price is not in the Return Series, and
\* the Return Series has no missing value.
C3_MissingDatesExcluded ==
    \A i \in SeriesIds :
        /\ \A t \in 1..N : MissingAt(t) => Table.index[t] \notin Range(heap[i].index)
        /\ \A p \in 1..Len(heap[i].data) : ~IsNaN(heap[i].data[p])

\* C3, where pct_change does not fill (fill_method defaults to None): the
\* dates with a missing price are excluded.
C3_MissingDatesExcluded_Unfilled ==
    ~fill_pad => C3_MissingDatesExcluded

\* The same return every period: the sample standard deviation is zero.
ZeroVolatility(s) == std(s).k = "sqrt" /\ std(s).n = 0

\* C4: calcular_indicadores on a Return Series of zero volatility ends in a
\* failure, and no Indicator Record of such a series holds an infinite or
\* undefined Sharpe ratio.
C4_ZeroVolatilityFails ==
    /\ (raised.fn = "calcular_indicadores" /\ ZeroVolatility(heap[rentabilidad_cartera]))
          => raised.exception # "none"
    /\ \A j \in RecordIds :
          ZeroVolatility(SeriesOf(j)) => Sharpe(j).k \notin {"inf", "nan"}

\* The dates of the Price Table with every price present.
UsableDates == {t \in 1..N : ~MissingAt(t)}

\* C5: with fewer than two usable dates calcular_rentabilidad fails; it does
\* not return an empty Return Series.
C5_DegenerateInputFails ==
    /\ (raised.fn = "calcular_rentabilidad" /\ Cardinality(UsableDates) <= 1)
          => raised.exception # "none"
    /\ Cardinality(UsableDates) <= 1 => \A i \in SeriesIds : Len(heap[i].data) > 0

\* C6: a Price Table of zero columns is rejected with a Shape-mismatch failure
\* before the division 1 / n_empresas, and no Return Series is produced.
C6_ZeroColumnsRejectedBeforeDivision ==
    (raised.fn = "calcular_rentabilidad" /\ M = 0) =>
        /\ raised.exception = "ShapeMismatch"
        /\ raised.at # "peso_cartera"
        /\ SeriesIds = {}

NonNegative(s) == \A p \in 1..Len(s.data) : FLe(Zero, s.data[p])

\* C7: the maximum drawdown of a non-empty Return Series is <= 0, and is 0
\* when no return is negative.
C7_MaxDrawdownNonPositive ==
    \A j \in RecordIds :
        Len(SeriesOf(j).data) > 0 =>
            /\ IsNum(Drawdown(j))
            /\ FLe(Drawdown(j), Zero)
            /\ NonNegative(SeriesOf(j)) => Drawdown(j) = Zero

C7_Witness ==
    \E j \in RecordIds :
        /\ Len(SeriesOf(j).data) = 2
        /\ FLt(Zero, SeriesOf(j).data[1])
        /\ FLt(SeriesOf(j).data[2], Zero)
        /\ FLt(Drawdown(j), Zero)

AllZero(s) == \A p \in 1..Len(s.data) : s.data[p] = Zero

\* C8: for a non-empty Return Series of zero returns the cumulative return and
\* the annualized return are 0, whatever dias_trading is.
C8_ZeroReturns ==
    \A j \in RecordIds :
        (Len(SeriesOf(j).data) > 0 /\ AllZero(SeriesOf(j))) =>
            /\ Acumulado(j) = Zero
            /\ Anualizada(j) = Zero

C8_Witness ==
    \E j \in RecordIds :
        /\ Len(SeriesOf(j).data) = 2
        /\ AllZero(SeriesOf(j))
        /\ made_by[j].dias_trading = MaxDias

\* C9: a call leaves every object the session held as it was, the Price Table
\* and the Return Series it was given among them, and what it returns is an
\* object the session did not hold.
C9_InputsUnchanged ==
    [][/\ Len(heap') >= Len(heap)
       /\ \A i \in 1..Len(heap) : heap'[i] = heap[i]
       /\ precios_cierre' = precios_cierre
       /\ rentabilidad_cartera' # rentabilidad_cartera
             => rentabilidad_cartera' \notin 1..Len(heap)
       /\ df_indicadores' # df_indicadores
             => df_indicadores' \notin 1..Len(heap)]_vars

\* Both functions have been called, on a Price Table that differs from its
\* own percentage changes and gave a non-empty Return Series.
C9_Witness ==
    /\ rentabilidad_cartera # 0
    /\ df_indicadores # 0
    /\ Len(heap[rentabilidad_cartera].data) > 0
    /\ heap[precios_cierre] # pct_change_value(heap[precios_cierre], fill_pad)

\* C10: the Return Series does not depend on capital_inicial: the series the
\* session's call returned is the one a call with any other capital returns
\* on the same Price Table.
C10_CapitalIndependent ==
    \A i \in SeriesIds : \A c \in Capitals :
        LET r == calcular_rentabilidad(<<Table>>, 1, c, fill_pad)
        IN  heap[i] = r.heap[r.ref]

C10_Witness ==
    \E i \in SeriesIds :
        /\ made_by[i].capital_inicial = 50000
        /\ 100000 \in Capitals
        /\ Len(heap[i].data) = MaxRows - 1
        /\ \E p \in 1..Len(heap[i].data) : heap[i].data[p] # Zero

====
